---------------------------- MODULE Spec2Model ----------------------------
(***************************************************************************)
(* cargo-debug: `cargo debug [<debugger>] [--bin NAME] [-- args...]`.      *)
(* A model of src/main.rs: main() is a straight pipeline                   *)
(*   parse argv -> spawn cargo -> read JSON messages -> wait for cargo ->  *)
(*   retain executables -> select one -> choose debugger -> synthesize     *)
(*   its argv -> install the Ctrl-C handler -> run the debugger -> return. *)
(* pc is the position of main(); a terminated process keeps the pc of the  *)
(* step that ended it and carries its exit code in exitCode.               *)
(* The Ctrl-C handler runs on its own thread, concurrently with main(),    *)
(* from the moment it is installed.                                        *)
(*                                                                         *)
(* Not modelled: --release, --manifest-path and --example, which only add  *)
(* words to cargo's command line (lines 100-116) and are read nowhere      *)
(* else; SIGINT before the handler is installed.                           *)
(***************************************************************************)
EXTENDS Integers, Sequences, FiniteSets

\* ------------------------------------------------------------ Option<T>
\* Rust's Option: None is the empty sequence, Some(x) the one-element one.
None == <<>>
Some(x) == <<x>>

\* ------------------------------------------------------------ bounds
\* Artifact messages cargo emits in one build.
MaxArtifacts == 2
\* Seconds the clock runs after the handler's timestamp is taken.
MaxTime == 2
\* Ctrl-C signals delivered to the handler.
MaxInterrupts == 2

\* ------------------------------------------------------------ inputs
\* argv: the optional <debugger> word.  Any word can be typed here.
DebuggerInputs ==
    {None} \cup {Some(d) : d \in {"gdb", "gdbserver", "lldb", "devenv", "windbg"}}
\* argv: the optional --bin NAME.
BinInputs == {None, Some("app")}
\* argv: the trailing words.  num_args(1..) makes a present list non-empty.
OptionInputs == {None, Some(<<"-q">>), Some(<<"-q", "1">>)}
\* cfg!(unix), cfg!(windows), neither.
Platforms == {"unix", "windows", "other"}

\* cargo_metadata::Artifact, the two fields main() reads.
Art(name, exe) == [target |-> [name |-> name], executable |-> exe]
\* The artifacts a build may report: a library (no executable), a bin, an
\* example of the same name, a name differing in case only, and a name the
\* --bin word is a proper prefix of.
ArtifactInputs ==
    { Art("app", None),
      Art("app", Some("/tmp/app")),
      Art("app", Some("/tmp/examples/app")),
      Art("App", Some("/tmp/App")),
      Art("app2", Some("/tmp/app2")) }
\* One line of cargo's stdout after parsing: an artifact, any other message
\* kind, or a line that does not parse.
Messages ==
    {[kind |-> "compiler-artifact", artifact |-> a] : a \in ArtifactInputs}
    \cup {[kind |-> "build-finished"], [kind |-> "malformed"]}
\* ExitStatus::code() of a child: None when a signal ended it.
StatusCodes == {None, Some(0), Some(1), Some(101)}

\* Exit status of a Rust process whose main thread panicked.
PanicCode == 101
\* Exit status clap gives a usage error in get_matches().
UsageCode == 2

VARIABLES
    pc,            \* position of main()
    exitCode,      \* Option: the tool's exit code once it has terminated
    dbgArg,        \* matches.get_one("debugger")
    binArg,        \* matches.get_one("bin")
    options,       \* matches.get_many("options")
    platform,      \* the cfg! the binary was built for
    artifacts,     \* Vec<Artifact> pushed by the message loop
    buildStatus,   \* Option<Option<code>>: None until handle.wait() returned
    binaries,      \* Vec<(Target, path)>
    bin,           \* Option: the selected executable path
    stdout,        \* lines written by println!
    debugger,      \* Option: the debugger identifier
    debug_path,    \* Option: unassigned until a match arm assigns it
    debug_args,    \* Vec<String>
    then,          \* Option: the Mutex<SystemTime> b, None before line 313
    now,           \* SystemTime::now(), seconds
    interrupts,    \* Ctrl-C signals handled so far
    handlerAlive,  \* the handler thread has not panicked
    debugChild     \* [state, code] of the debugger subprocess

vars == <<pc, exitCode, dbgArg, binArg, options, platform, artifacts,
          buildStatus, binaries, bin, stdout, debugger, debug_path,
          debug_args, then, now, interrupts, handlerAlive, debugChild>>

argv == <<dbgArg, binArg, options, platform>>
build == <<artifacts, buildStatus>>
selection == <<binaries, bin, stdout>>
synthesis == <<debugger, debug_path, debug_args>>
launch == <<then, now, interrupts, handlerAlive, debugChild>>

Running == exitCode = None

Init ==
    /\ pc = "parse"
    /\ exitCode = None
    /\ dbgArg \in DebuggerInputs
    /\ binArg \in BinInputs
    /\ options \in OptionInputs
    /\ platform \in Platforms
    /\ artifacts = <<>>
    /\ buildStatus = None
    /\ binaries = <<>>
    /\ bin = None
    /\ stdout = <<>>
    /\ debugger = None
    /\ debug_path = None
    /\ debug_args = <<>>
    /\ then = None
    /\ now = 0
    /\ interrupts = 0
    /\ handlerAlive = TRUE
    /\ debugChild = [state |-> "none", code |-> None]

\* ------------------------------------------------------------ parse argv
\* PossibleValuesParser::new(["gdb", "devenv"])
ClapAccepts(d) == d \in {"gdb", "devenv"}

\* get_matches(): an unlisted <debugger> word is a usage error, the process
\* exits before anything is built.
ParseArgs ==
    /\ pc = "parse" /\ Running
    /\ IF dbgArg # None /\ ~ClapAccepts(dbgArg[1])
         THEN exitCode' = Some(UsageCode) /\ pc' = pc
         ELSE exitCode' = exitCode /\ pc' = "spawn_cargo"
    /\ UNCHANGED <<argv, build, selection, synthesis, launch>>

\* ------------------------------------------------------------ build
\* cargo_cmd.spawn().expect(..)
SpawnCargo ==
    /\ pc = "spawn_cargo" /\ Running
    /\ \E ok \in BOOLEAN :
         IF ok THEN pc' = "read" /\ exitCode' = exitCode
               ELSE pc' = pc /\ exitCode' = Some(PanicCode)
    /\ UNCHANGED <<argv, build, selection, synthesis, launch>>

\* One iteration of `for message in parse_messages(..)`.
ReadMessage ==
    /\ pc = "read" /\ Running
    /\ Len(artifacts) < MaxArtifacts
    /\ \E m \in Messages :
         CASE m.kind = "compiler-artifact" ->
                /\ artifacts' = Append(artifacts, m.artifact)
                /\ UNCHANGED <<pc, exitCode>>
           [] m.kind = "malformed" ->
                /\ exitCode' = Some(PanicCode)
                /\ UNCHANGED <<pc, artifacts>>
           [] OTHER ->
                UNCHANGED <<pc, exitCode, artifacts>>
    /\ UNCHANGED <<argv, buildStatus, selection, synthesis, launch>>

\* The stream is drained: the loop ends.
EndOfStream ==
    /\ pc = "read" /\ Running
    /\ pc' = "wait"
    /\ UNCHANGED <<exitCode, argv, build, selection, synthesis, launch>>

\* Lines 139-143: the exit code main() ends with at the build-status check,
\* None when it goes on.
CargoExit_fixedCode(code) ==
    IF code # None /\ code[1] # 0 THEN Some(1) ELSE None
CargoExit_signalFails(code) ==
    IF code = None THEN Some(1)
    ELSE IF code[1] # 0 THEN Some(code[1]) ELSE None
CargoExit(code) ==
    IF code # None /\ code[1] # 0 THEN Some(code[1]) ELSE None

\* handle.wait().expect(..), then the status check.
WaitCargo ==
    /\ pc = "wait" /\ Running
    /\ \/ \E code \in StatusCodes :
            /\ buildStatus' = Some(code)
            /\ IF CargoExit(code) # None
                 THEN exitCode' = CargoExit(code) /\ pc' = pc
                 ELSE exitCode' = exitCode /\ pc' = "filter"
       \/ /\ exitCode' = Some(PanicCode)      \* wait() returned Err
          /\ UNCHANGED <<pc, buildStatus>>
    /\ UNCHANGED <<argv, artifacts, selection, synthesis, launch>>

\* ------------------------------------------------------------ selection
\* Lines 150-159: filter_map keeps (target, executable) of the artifacts
\* that have an executable, in order.
FilterExecutables_keepAll(arts) ==
    [i \in 1..Len(arts) |->
        <<arts[i].target,
          IF arts[i].executable = None THEN "" ELSE arts[i].executable[1]>>]
FilterExecutables(arts) ==
    LET kept == SelectSeq(arts, LAMBDA a : a.executable # None)
    IN  [i \in 1..Len(kept) |-> <<kept[i].target, kept[i].executable[1]>>]

FilterBinaries ==
    /\ pc = "filter" /\ Running
    /\ binaries' = FilterExecutables(artifacts)
    /\ pc' = "select"
    /\ UNCHANGED <<exitCode, argv, build, bin, stdout, synthesis, launch>>

\* Line 163: target.name == **binary, String equality.
Lower(n) == IF n = "App" THEN "app" ELSE n
NameEq_ignoreCase(target, binary) == Lower(target) = Lower(binary)
NameEq(target, binary) == target = binary

\* Lines 162-168: iter().find_map, the executable of the first match.
FindByName_last(bins, binary) ==
    LET hits == {i \in 1..Len(bins) : NameEq(bins[i][1].name, binary)}
    IN  IF hits = {} THEN None
        ELSE Some(bins[CHOOSE i \in hits : \A j \in hits : j <= i][2])
FindByName(bins, binary) ==
    LET hits == {i \in 1..Len(bins) : NameEq(bins[i][1].name, binary)}
    IN  IF hits = {} THEN None
        ELSE Some(bins[CHOOSE i \in hits : \A j \in hits : i <= j][2])

\* Lines 176-183: without a name, the only binary or nothing.
SelectOnly_first(bins) ==
    IF Len(bins) >= 1 THEN Some(bins[1][2]) ELSE None
SelectOnly(bins) ==
    IF Len(bins) = 1 THEN Some(bins[1][2]) ELSE None

NotFoundMessage(binary) == <<"Could not find binary artifact", binary>>
AmbiguousMessage ==
    <<"More than one binary artifact produced, please explicitly specify the binary.">>

\* Lines 161-184.
SelectBinary ==
    /\ pc = "select" /\ Running
    /\ LET found == IF binArg # None THEN FindByName(binaries, binArg[1])
                                     ELSE SelectOnly(binaries)
       IN  IF found # None
             THEN /\ bin' = found
                  /\ pc' = "choose"
                  /\ UNCHANGED <<exitCode, stdout>>
             ELSE /\ stdout' = Append(stdout,
                                  IF binArg # None THEN NotFoundMessage(binArg[1])
                                                   ELSE AmbiguousMessage)
                  /\ exitCode' = Some(1)
                  /\ UNCHANGED <<pc, bin>>
    /\ UNCHANGED <<argv, build, binaries, synthesis, launch>>

\* ------------------------------------------------------------ synthesis
\* Lines 191-197: the default when no <debugger> word was given; None is
\* panic!("no default debugger").
DefaultDebugger(plat) ==
    IF plat = "unix" THEN Some("gdb")
    ELSE IF plat = "windows" THEN Some("devenv")
    ELSE None

\* Lines 188-198.
ChooseDebugger ==
    /\ pc = "choose" /\ Running
    /\ LET dbg == IF dbgArg # None THEN dbgArg ELSE DefaultDebugger(platform)
       IN  IF dbg # None
             THEN debugger' = dbg /\ pc' = "synth" /\ exitCode' = exitCode
             ELSE debugger' = debugger /\ pc' = pc /\ exitCode' = Some(PanicCode)
    /\ UNCHANGED <<argv, build, selection, debug_path, debug_args, launch>>

\* opts.cloned() appended to the vector, when the option is present.
Extend(args, opts) == IF opts # None THEN args \o opts[1] ELSE args

\* Lines 204-227, the "gdb" arm.
GdbArgs_alwaysFlag(exe, opts) ==
    Extend(<<"--args", exe>>, opts)
GdbArgs(exe, opts) ==
    Extend((IF opts # None THEN <<"--args">> ELSE <<>>) \o <<exe>>, opts)
\* Lines 228-248, the "lldb" arm.
LldbArgs(exe, opts) ==
    Extend(<<"--file", exe>> \o (IF opts # None THEN <<"--">> ELSE <<>>), opts)
\* Lines 249-267, the "gdbserver" arm.
GdbserverArgs(exe, opts) ==
    Extend(<<exe>>, opts)
\* Lines 280-290, the "devenv" arm once Visual Studio was found.
DevenvArgs(exe, opts) ==
    Extend(<<"/DebugExe", exe>>, opts)

\* What vswhere reports: an installation, none, or a failure to run
\* (run_default_path().unwrap() panics).
VswhereOutcomes == {"found", "none", "error"}
\* info.product_path() of the installation found.
ProductPath == "devenv.exe"

\* Lines 200-300: match debugger.
Synthesize ==
    /\ pc = "synth" /\ Running
    /\ LET d == debugger[1]
           exe == bin[1]
           ready(path, args) ==
               /\ debug_path' = Some(path)
               /\ debug_args' = args
               /\ pc' = "install"
               /\ exitCode' = exitCode
           stop(code) ==
               /\ exitCode' = Some(code)
               /\ UNCHANGED <<pc, debug_path, debug_args>>
       IN  CASE d = "gdb" -> ready("gdb", GdbArgs(exe, options))
             [] d = "lldb" -> ready("lldb", LldbArgs(exe, options))
             [] d = "gdbserver" -> ready("gdbserver", GdbserverArgs(exe, options))
             [] d = "devenv" ->
                  \E found \in VswhereOutcomes :
                     CASE found = "found" ->
                            ready(ProductPath, DevenvArgs(exe, options))
                       [] found = "none" -> stop(1)
                       [] OTHER -> stop(PanicCode)
             [] OTHER -> stop(1)
    /\ UNCHANGED <<argv, build, selection, debugger, launch>>

\* ------------------------------------------------------------ launch
\* Duration::from_secs(1)
DebounceSecs == 1

\* Lines 313-327: b = now; ctrlc::set_handler(..).expect(..).
InstallHandler ==
    /\ pc = "install" /\ Running
    /\ then' = Some(now)
    /\ \E ok \in BOOLEAN :
         IF ok THEN pc' = "spawn_debugger" /\ exitCode' = exitCode
               ELSE pc' = pc /\ exitCode' = Some(PanicCode)
    /\ UNCHANGED <<argv, build, selection, synthesis, now, interrupts,
                   handlerAlive, debugChild>>

\* The handler thread exists once set_handler returned Ok.
HandlerInstalled == pc \in {"spawn_debugger", "debugging", "finish"}

\* Line 321: the handler's test, which sends it to std::process::exit(0).
HandlerExits(t, last) == t - last > DebounceSecs

\* Lines 317-326: one Ctrl-C.  duration_since is Err when the clock went
\* back behind `then`; unwrap() then panics on the handler thread, which
\* ends that thread (the lock stays poisoned) and leaves main() running.
Interrupt ==
    /\ HandlerInstalled /\ Running /\ handlerAlive
    /\ interrupts < MaxInterrupts
    /\ interrupts' = interrupts + 1
    /\ IF now < then[1]
         THEN handlerAlive' = FALSE /\ UNCHANGED <<exitCode, then>>
         ELSE IF HandlerExits(now, then[1])
           THEN exitCode' = Some(0) /\ UNCHANGED <<then, handlerAlive>>
           ELSE then' = Some(now) /\ UNCHANGED <<exitCode, handlerAlive>>
    /\ UNCHANGED <<pc, argv, build, selection, synthesis, now, debugChild>>

\* A second passes.
Tick ==
    /\ HandlerInstalled /\ Running
    /\ now < MaxTime
    /\ now' = now + 1
    /\ UNCHANGED <<pc, exitCode, argv, build, selection, synthesis, then,
                   interrupts, handlerAlive, debugChild>>

\* SystemTime is the wall clock: it may be set back.
ClockSetBack ==
    /\ HandlerInstalled /\ Running
    /\ now > 0
    /\ now' = now - 1
    /\ UNCHANGED <<pc, exitCode, argv, build, selection, synthesis, then,
                   interrupts, handlerAlive, debugChild>>

\* Line 334, first half: debug_cmd.status() spawns the debugger;
\* expect(..) panics when it cannot be started.
SpawnDebugger ==
    /\ pc = "spawn_debugger" /\ Running
    /\ \E ok \in BOOLEAN :
         IF ok THEN /\ debugChild' = [state |-> "running", code |-> None]
                    /\ pc' = "debugging"
                    /\ exitCode' = exitCode
               ELSE /\ exitCode' = Some(PanicCode)
                    /\ UNCHANGED <<pc, debugChild>>
    /\ UNCHANGED <<argv, build, selection, synthesis, then, now, interrupts,
                   handlerAlive>>

\* Line 334, second half: the debugger ends and status() returns Ok.
DebuggerExit ==
    /\ pc = "debugging" /\ Running
    /\ \E code \in StatusCodes :
         debugChild' = [state |-> "exited", code |-> code]
    /\ pc' = "finish"
    /\ UNCHANGED <<exitCode, argv, build, selection, synthesis, then, now,
                   interrupts, handlerAlive>>

\* Lines 334-338: the status is dropped and main() returns Ok(()).
MainReturn_propagate(status) == IF status # None THEN status[1] ELSE 1
MainReturn(status) == 0

Finish ==
    /\ pc = "finish" /\ Running
    /\ exitCode' = Some(MainReturn(debugChild.code))
    /\ UNCHANGED <<pc, argv, build, selection, synthesis, launch>>

Next ==
    \/ ParseArgs
    \/ SpawnCargo
    \/ ReadMessage
    \/ EndOfStream
    \/ WaitCargo
    \/ FilterBinaries
    \/ SelectBinary
    \/ ChooseDebugger
    \/ Synthesize
    \/ InstallHandler
    \/ Interrupt
    \/ Tick
    \/ ClockSetBack
    \/ SpawnDebugger
    \/ DebuggerExit
    \/ Finish

Spec == Init /\ [][Next]_vars

\* ------------------------------------------------------------ properties
\* Positions of main() after the selection step.
PastSelect ==
    {"choose", "synth", "install", "spawn_debugger", "debugging", "finish"}
\* The selection step has acted: it went on, or it ended the process.
SelectRan == pc \in PastSelect \/ (pc = "select" /\ ~Running)
\* Indices of the records cargo emitted that carry an executable.
Retained == {i \in DOMAIN artifacts : artifacts[i].executable # None}
\* Those among them whose target name is n.
Named(n) == {i \in Retained : artifacts[i].target.name = n}
\* Every executable path a build can report.
ExePaths ==
    {a.executable[1] : a \in {x \in ArtifactInputs : x.executable # None}}
\* The debugger's argument list carries path p and no other executable.
HandedTo(p) ==
    {debug_args[i] : i \in DOMAIN debug_args} \cap ExePaths = {p}
\* The trailing words as a plain list.
Trailing == IF options = None THEN <<>> ELSE options[1]

\* C1: with no --bin, after a build that exited 0, a retained list of zero
\* or of two or more records ends the tool at the selection step with exit
\* code 1; no record is selected, nothing is synthesized and the debugger
\* is never spawned.
C1_FailsClosed ==
    (binArg = None /\ buildStatus = Some(Some(0))
        /\ Cardinality(Retained) # 1)
    => /\ pc \in {"filter", "select"}
       /\ bin = None
       /\ debug_path = None
       /\ debugChild.state = "none"
       /\ (~Running => pc = "select" /\ exitCode = Some(1))
C1_Witness ==
    /\ binArg = None /\ buildStatus = Some(Some(0))
    /\ Cardinality(Retained) >= 2
    /\ pc = "select" /\ exitCode = Some(1)
    /\ debugChild.state = "none"

\* C2: with no --bin, when exactly one emitted record carries an executable
\* (library-only records around it are dropped and not counted), selection
\* succeeds with exactly that record's path, and that path is the one in the
\* debugger's argument list.
C2_SingleExecutable ==
    (binArg = None /\ Cardinality(Retained) = 1 /\ SelectRan)
    => LET p == artifacts[CHOOSE i \in Retained : TRUE].executable[1]
       IN  /\ bin = Some(p)
           /\ (debug_path # None => HandedTo(p))
C2_Witness ==
    /\ binArg = None /\ Cardinality(Retained) = 1
    /\ Len(artifacts) = 2
    /\ artifacts[1].executable = None
    /\ bin = artifacts[2].executable
    /\ debugChild.state = "running"
    /\ HandedTo(bin[1])

\* C3: with --bin NAME, when no retained record's target name is exactly
\* NAME, the tool prints a message naming NAME and ends at the selection
\* step with exit code 1, whatever else was retained; nothing is selected
\* or synthesized and the debugger is never spawned.
C3_NameNotFound ==
    (binArg # None /\ SelectRan /\ Named(binArg[1]) = {})
    => /\ pc = "select"
       /\ exitCode = Some(1)
       /\ \E i \in DOMAIN stdout :
             binArg[1] \in {stdout[i][k] : k \in DOMAIN stdout[i]}
       /\ bin = None
       /\ debug_path = None
       /\ debugChild.state = "none"
C3_Witness ==
    /\ binArg = Some("app")
    /\ Cardinality(Retained) = 1
    /\ artifacts[CHOOSE i \in Retained : TRUE].target.name \in {"App", "app2"}
    /\ pc = "select" /\ exitCode = Some(1)
    /\ stdout = <<NotFoundMessage("app")>>

\* C4: when cargo exits with a non-zero code c, the tool ends at the
\* build-status check with exit code c; no filtering, selection, synthesis
\* or debugger spawn takes place, whatever records were emitted.
C4_BuildFailurePropagated ==
    \A c \in {x[1] : x \in StatusCodes \ {None}} \ {0} :
       buildStatus = Some(Some(c))
       => /\ pc = "wait"
          /\ exitCode = Some(c)
          /\ binaries = <<>>
          /\ bin = None
          /\ stdout = <<>>
          /\ debug_path = None
          /\ debugChild.state = "none"
C4_Witness ==
    /\ buildStatus = Some(Some(101))
    /\ exitCode = Some(101)
    /\ Cardinality(Retained) >= 1
    /\ pc = "wait"

\* C5: a Ctrl-C arriving more than the one-second window after the recorded
\* timestamp is absorbed (the timestamp becomes now, the process goes on);
\* one arriving within the window terminates the tool.
C5_Debounce ==
    [][ (interrupts' = interrupts + 1)
        => IF now - then[1] > DebounceSecs
             THEN exitCode' = None /\ then' = Some(now)
             ELSE exitCode' # None ]_vars

\* The scenario of C6: one record for target app with executable /tmp/app,
\* no --bin, no <debugger> word on a POSIX build, no trailing words.
C6_Scenario ==
    /\ artifacts = <<Art("app", Some("/tmp/app"))>>
    /\ binArg = None
    /\ dbgArg = None
    /\ platform = "unix"
    /\ options = None
\* C6 as stated: in the scenario the debugger's argument list is
\* ["--args", "/tmp/app"].
C6_Original ==
    (C6_Scenario /\ debug_path # None)
    => debug_args = <<"--args", "/tmp/app">>
\* C6 as amended: in the scenario the debugger is gdb and its argument list
\* is ["/tmp/app"]; "--args" is pushed only when trailing words were given.
C6_DefaultGdb ==
    (C6_Scenario /\ debug_path # None)
    => /\ debug_path = Some("gdb")
       /\ debug_args = <<"/tmp/app">>
C6_Witness ==
    /\ C6_Scenario
    /\ debugChild.state = "running"
    /\ debug_args = <<"/tmp/app">>

\* The debugger identifiers the command line is documented to take.
DocumentedDebuggers == {"gdb", "gdbserver", "lldb", "devenv", "windbg"}
\* The framing the documentation's table gives debugger kind d.
Framed(d, args, exe, trailing) ==
    CASE d = "gdb" ->
           args = (IF trailing # <<>> THEN <<"--args">> ELSE <<>>)
                  \o <<exe>> \o trailing
      [] d = "gdbserver" -> args = <<exe>> \o trailing
      [] d = "lldb" ->
           args = <<"--file", exe>>
                  \o (IF trailing # <<>> THEN <<"--">> \o trailing ELSE <<>>)
      [] d = "devenv" -> args = <<"/DebugExe", exe>> \o trailing
      [] d = "windbg" ->
           /\ Len(args) = 2 + Len(trailing)
           /\ args[2] = exe
           /\ SubSeq(args, 3, Len(args)) = trailing
\* C7: each of the five documented debugger identifiers is accepted as
\* <debugger>, and the argument list synthesized for it has the framing of
\* the documentation's table.
C7_DocumentedDebuggers ==
    \A d \in DocumentedDebuggers :
       dbgArg = Some(d)
       => /\ ~(pc = "parse" /\ ~Running)
          /\ (debug_path # None => Framed(d, debug_args, bin[1], Trailing))

\* C8: once the debugger was spawned and has exited, with any status, the
\* tool ends with exit code 0.
C8_DebuggerStatusDropped ==
    (debugChild.state = "exited" /\ ~Running) => exitCode = Some(0)
C8_Witness ==
    /\ debugChild = [state |-> "exited", code |-> Some(101)]
    /\ pc = "finish"
    /\ exitCode = Some(0)
    /\ interrupts = 0

\* C9: with --bin NAME, when two or more retained records are named NAME,
\* selection succeeds with the executable of the first of them in emission
\* order, and no message is printed.
C9_FirstOfSameName ==
    (binArg # None /\ SelectRan /\ Cardinality(Named(binArg[1])) >= 2)
    => LET first == CHOOSE i \in Named(binArg[1]) :
                       \A j \in Named(binArg[1]) : i <= j
       IN  /\ bin = artifacts[first].executable
           /\ stdout = <<>>
           /\ pc \in PastSelect
C9_Witness ==
    /\ binArg = Some("app")
    /\ artifacts = <<Art("app", Some("/tmp/examples/app")),
                     Art("app", Some("/tmp/app"))>>
    /\ bin = Some("/tmp/examples/app")
    /\ debugChild.state = "running"
    /\ HandedTo("/tmp/examples/app")

\* C10: when cargo ends without an exit code (killed by a signal), the tool
\* does not stop at the build-status check: it filters and selects over the
\* records read so far, and a selection that has a candidate goes on towards
\* the debugger.
C10_SignalledBuildProceeds ==
    buildStatus = Some(None)
    => /\ pc \in {"filter", "select"} \cup PastSelect
       /\ (pc # "filter" => Len(binaries) = Cardinality(Retained))
       /\ (SelectRan /\ (IF binArg = None THEN Cardinality(Retained) = 1
                                          ELSE Named(binArg[1]) # {})
             => bin # None /\ pc \in PastSelect)
C10_Witness ==
    /\ buildStatus = Some(None)
    /\ Len(artifacts) >= 1
    /\ bin # None
    /\ debugChild.state = "running"
=============================================================================
